---- MODULE Spec2Model ----
(***************************************************************************)
(* A model of merkletools.mt.MerkleTree (src/src/merkletools/mt.py).       *)
(*                                                                         *)
(* MerkleTree is a thin subclass: its methods are translated from mt.py.   *)
(* The base class MerkleTools (merkletools/merkletools.py) and the Proof   *)
(* class (merkletools/proof.py) are modelled from spec.md sections 3-4 and *)
(* 7; those definitions carry the prefix "super_" or are marked            *)
(* "base class" below.                                                     *)
(*                                                                         *)
(* Byte strings are terms of a free algebra, so the digest is collision    *)
(* free by construction:                                                   *)
(*   a Python value      [kind |-> "bytes" | "str", s |-> <<chars>>]       *)
(*   digest(x)           [d |-> x]                                         *)
(*   concat(l, r)        [l |-> l, r |-> r]                                *)
(* The base class hands nodes out as str ([u |-> node]); mt.py encodes     *)
(* them to bytes ([b |-> node]) and decodes them back.                     *)
(***************************************************************************)
EXTENDS Integers, Sequences, FiniteSets, TLC

VARIABLES
    secure,     \* self._secure, fixed by __init__
    leaves,     \* base class: the leaf store, in insertion order
    levels,     \* base class: the built levels, level 0 first; <<>> when Unbuilt
    is_ready,   \* base class: TRUE iff the tree is Built
    held,       \* a Proof object the caller keeps from an earlier call
    op,         \* name of the last method called
    arg,        \* the argument of the last call
    err,        \* the error the last call raised, "none" if it returned
    ret         \* the value the last call returned, None if it raised

vars == <<secure, leaves, levels, is_ready, held, op, arg, err, ret>>

MaxLeaves == 3      \* puts are cut off at this many leaves
MaxList == 2        \* longest list handed to put_list

None == [none |-> TRUE]
NoArg == [noarg |-> TRUE]

(***************************************************************************)
(* Python values handed to put.                                            *)
(***************************************************************************)
PyBytes(s) == [kind |-> "bytes", s |-> s]
PyStr(s) == [kind |-> "str", s |-> s]
PyInt(n) == [kind |-> "int", n |-> n]
PyDict(items) == [kind |-> "dict", items |-> items]
Item(k, v) == [key |-> k, val |-> v]

\* characters: 1 = 'a', 2 = 'b', 5 = '5', 9 = the quote of a bytes repr
ValA == PyBytes(<<1>>)
ValB == PyBytes(<<2>>)
ValDict == PyDict(<<Item(PyStr(<<1>>), PyStr(<<5>>))>>)
ValNested == PyDict(<<Item(PyStr(<<2>>), ValDict)>>)
ValBadDict == PyDict(<<Item(PyStr(<<1>>), PyInt(5))>>)
ValInt == PyInt(5)

Values == {ValA, ValB, ValDict, ValNested, ValBadDict, ValInt}

\* Python's isinstance(value, t)
isinstance(value, t) == value.kind = t

\* Python's truth value of a tuple: true iff it is not empty
TupleTruth(t) == Len(t) > 0

\* Python's str(x): a str is itself, bytes give their repr b'..', an int its digits
str(x) ==
    CASE x.kind = "str" -> x.s
      [] x.kind = "bytes" -> <<2, 9>> \o x.s \o <<9>>
      [] x.kind = "int" -> <<x.n>>

(***************************************************************************)
(* base class: HashEngine (spec.md 4.1)                                    *)
(***************************************************************************)
hash_function(x) == [d |-> x]
concat(l, r) == [l |-> l, r |-> r]

\* str <-> bytes, as str.encode() and bytes.decode() in mt.py
encode(x) == [b |-> x.u]
decode(x) == [u |-> x.b]
\* base class: the str form in which a stored node is handed out, and back
to_str(node) == [u |-> node]
from_str(x) == x.u

(***************************************************************************)
(* A method call returns the tree state it leaves, the error it raised     *)
(* ("none" when it returned) and the value it returned.                    *)
(***************************************************************************)
Tree(lv, lvls, rdy) == [leaves |-> lv, levels |-> lvls, is_ready |-> rdy]
Self == Tree(leaves, levels, is_ready)
Return(self, value) == [self |-> self, err |-> "none", ret |-> value]
Raise(self, e) == [self |-> self, err |-> e, ret |-> None]

(***************************************************************************)
(* base class: LeafStore (spec.md 4.2)                                     *)
(***************************************************************************)
add_leaf(self, value, do_hash) ==
    IF ~(isinstance(value, "bytes") \/ isinstance(value, "str"))
    THEN Raise(self, "TypeMismatch")
    ELSE Return(Tree(Append(self.leaves, IF do_hash THEN hash_function(value) ELSE value),
                     <<>>, FALSE),
                None)

get_leaf(self, index) ==
    IF index >= Len(self.leaves)
    THEN Raise(self, "IndexOutOfRange")
    ELSE Return(self, to_str(self.leaves[index + 1]))

get_leaf_count(self) == Len(self.leaves)

super_reset_tree(self) == Return(Tree(<<>>, <<>>, FALSE), None)

(***************************************************************************)
(* base class: TreeBuilder (spec.md 4.3)                                   *)
(***************************************************************************)
\* pair adjacent nodes left to right; an odd last node is paired with itself
NextLevel(level) ==
    [k \in 1..((Len(level) + 1) \div 2) |->
        LET l == level[2 * k - 1]
            r == IF 2 * k <= Len(level) THEN level[2 * k] ELSE level[2 * k - 1]
        IN  hash_function(concat(l, r))]

RECURSIVE BuildFrom(_)
BuildFrom(level) ==
    IF Len(level) <= 1 THEN <<level>> ELSE <<level>> \o BuildFrom(NextLevel(level))

Build(lv) == BuildFrom(lv)
Root(lvls) == lvls[Len(lvls)][1]

super_make_tree(self) ==
    IF get_leaf_count(self) = 0
    THEN Raise(self, "EmptyTree")
    ELSE Return(Tree(self.leaves, Build(self.leaves), TRUE), None)

\* the root exists only in a Built tree
super_get_merkle_root(self) ==
    IF get_leaf_count(self) = 0 THEN Raise(self, "EmptyTree")
    ELSE IF ~self.is_ready \/ self.levels = <<>> THEN Raise(self, "Unbuilt")
    ELSE Return(self, to_str(Root(self.levels)))

(***************************************************************************)
(* base class: ProofGenerator (spec.md 4.4)                                *)
(***************************************************************************)
\* the sibling entries from level x up to, and excluding, the root level;
\* index is 0-based, an entry is a dict with the one key "left" or "right"
RECURSIVE Walk(_, _, _)
Walk(lvls, x, index) ==
    IF x >= Len(lvls) THEN <<>>
    ELSE LET level == lvls[x]
             xor1 == IF index % 2 = 0 THEN index + 1 ELSE index - 1
             sibling == IF xor1 >= Len(level) THEN index ELSE xor1
             side == IF index % 2 = 0 THEN "right" ELSE "left"
         IN  <<  <<Item(to_str(side), to_str(level[sibling + 1]))>>  >>
                 \o Walk(lvls, x + 1, index \div 2)

\* the operation is defined on a Built tree only (spec.md 4.4, 7: no silent default)
super_get_proof_of_inclusion(self, index) ==
    IF index >= get_leaf_count(self) THEN Raise(self, "IndexOutOfRange")
    ELSE IF ~self.is_ready \/ self.levels = <<>> THEN Raise(self, "Unbuilt")
    ELSE Return(self, Walk(self.levels, 1, index))

(***************************************************************************)
(* base class: ProofVerifier (spec.md 4.5) and the Proof object            *)
(***************************************************************************)
Proof(target_key_hash, root_hash, proof_hash, type) ==
    [target |-> target_key_hash, trie_root |-> root_hash, proof |-> proof_hash,
     type |-> type]

IsProof(x) == DOMAIN x = {"target", "trie_root", "proof", "type"}

\* fold the sibling entries into the running digest; "malformed" on a wrong side tag
RECURSIVE Fold(_, _)
Fold(current, entries) ==
    IF entries = <<>> THEN [err |-> "none", digest |-> current]
    ELSE LET side == from_str(Head(entries)[1].key)
             sibling == from_str(Head(entries)[1].val)
         IN  IF side = "right"
             THEN Fold(hash_function(concat(current, sibling)), Tail(entries))
             ELSE IF side = "left"
             THEN Fold(hash_function(concat(sibling, current)), Tail(entries))
             ELSE [err |-> "MalformedProof", digest |-> current]

super_verify_proof_of_inclusion(self, proof, target_hash, merkle_root) ==
    LET f == Fold(from_str(target_hash), proof)
    IN  IF f.err # "none" THEN Raise(self, f.err)
        ELSE Return(self, f.digest = from_str(merkle_root))

(***************************************************************************)
(* mt.py: MerkleTree                                                       *)
(***************************************************************************)
\* mt.py 57-82.  The test of line 76 is the truth value of a 5-tuple.
RECURSIVE convert_items(_)
convert_items(items) ==
    IF items = <<>> THEN [err |-> "none", s |-> <<>>]
    ELSE LET key == Head(items).key
             val == Head(items).val
             this == IF ~TupleTruth(<<isinstance(key, "bytes"), isinstance(key, "str"),
                                      isinstance(val, "bytes"), isinstance(val, "str"),
                                      isinstance(val, "dict")>>)
                     THEN [err |-> "TypeError", s |-> <<>>]
                     ELSE IF isinstance(val, "dict")
                          THEN convert_items(val.items)
                          ELSE [err |-> "none", s |-> str(key) \o str(val)]
             rest == convert_items(Tail(items))
         IN  IF this.err # "none" THEN this
             ELSE IF rest.err # "none" THEN rest
             ELSE [err |-> "none", s |-> this.s \o rest.s]

convert_dict_to_string(dict_value) ==
    IF ~isinstance(dict_value, "dict") THEN [err |-> "TypeError", s |-> <<>>]
    ELSE convert_items(dict_value.items)

\* mt.py 28-55.  The test of line 50 is the truth value of a 3-tuple.
\* (mutant: the leaf is stored as given whatever secure says)
put_never_hashes(self, value) ==
    IF ~TupleTruth(<<isinstance(value, "bytes"), isinstance(value, "str"),
                     isinstance(value, "dict")>>)
    THEN Raise(self, "TypeError")
    ELSE IF isinstance(value, "dict")
         THEN LET c == convert_dict_to_string(value)
              IN  IF c.err # "none" THEN Raise(self, c.err)
                  ELSE add_leaf(self, PyStr(c.s), FALSE)
         ELSE add_leaf(self, value, FALSE)

put(self, value) ==
    IF ~TupleTruth(<<isinstance(value, "bytes"), isinstance(value, "str"),
                     isinstance(value, "dict")>>)
    THEN Raise(self, "TypeError")
    ELSE IF isinstance(value, "dict")
         THEN LET c == convert_dict_to_string(value)
              IN  IF c.err # "none" THEN Raise(self, c.err)
                  ELSE add_leaf(self, PyStr(c.s), secure)
         ELSE add_leaf(self, value, secure)

\* mt.py 84-100: the puts happen one by one, up to the first that raises
RECURSIVE put_each(_, _)
put_each(self, values) ==
    IF values = <<>> THEN Return(self, None)
    ELSE LET r == put(self, Head(values))
         IN  IF r.err # "none" THEN r ELSE put_each(r.self, Tail(values))

put_list(self, values) ==
    IF ~values.islist THEN Raise(self, "TypeError") ELSE put_each(self, values.items)

\* mt.py 151-157
\* (mutant: make_tree that does not call the base class)
make_tree_without_super(self) == Return(self, None)

\* (mutant: the leaves are hashed in place before the build)
make_tree_rehashing(self) ==
    super_make_tree(Tree([i \in 1..Len(self.leaves) |-> hash_function(self.leaves[i])],
                         self.levels, self.is_ready))

make_tree(self) == super_make_tree(self)
\* (mutant: the leaves are dropped but the built levels are kept)
reset_tree_keeping_levels(self) == Return(Tree(<<>>, self.levels, self.is_ready), None)

reset_tree(self) == super_reset_tree(self)

\* mt.py 159-172
\* (mutant: no implicit rebuild of an Unbuilt tree)
get_merkle_root_no_rebuild(self) == super_get_merkle_root(self)

\* (mutant: a failed build is swallowed and None returned)
get_merkle_root_or_none(self) ==
    IF ~self.is_ready
    THEN LET m == make_tree(self)
         IN  IF m.err # "none" THEN Return(self, None) ELSE super_get_merkle_root(m.self)
    ELSE super_get_merkle_root(self)

\* (mutant: the build is done on a copy and the tree itself stays as it was)
get_merkle_root_discarding_build(self) ==
    IF ~self.is_ready
    THEN LET m == make_tree(self)
         IN  IF m.err # "none" THEN m
             ELSE Return(self, super_get_merkle_root(m.self).ret)
    ELSE super_get_merkle_root(self)

\* (mutant: the node returned is the first of level 0, not of the last level)
get_merkle_root_first_leaf(self) ==
    IF ~self.is_ready
    THEN LET m == make_tree(self)
         IN  IF m.err # "none" THEN m ELSE Return(m.self, to_str(m.self.levels[1][1]))
    ELSE Return(self, to_str(self.levels[1][1]))

get_merkle_root(self) ==
    IF ~self.is_ready
    THEN LET m == make_tree(self)
         IN  IF m.err # "none" THEN m ELSE super_get_merkle_root(m.self)
    ELSE super_get_merkle_root(self)

\* mt.py 102-118: the test of line 116 is a disjunction; hexdigest() gives the
\* digest as a str, which is encoded
convert_value(self, value) ==
    IF ~(isinstance(value, "bytes") \/ isinstance(value, "str") \/ isinstance(value, "dict"))
    THEN Raise(self, "TypeError")
    ELSE Return(self, IF secure THEN encode(to_str(hash_function(value))) ELSE value)

\* mt.py 120-137
\* (mutant: the index counts from the last leaf)
get_from_end(self, index) ==
    IF ~index.isint THEN Raise(self, "TypeError")
    ELSE LET r == IF index.n >= get_leaf_count(self) THEN get_leaf(self, index.n)
                  ELSE get_leaf(self, get_leaf_count(self) - 1 - index.n)
         IN  IF r.err # "none" THEN r ELSE Return(r.self, encode(r.ret))

get(self, index) ==
    IF ~index.isint THEN Raise(self, "TypeError")
    ELSE LET r == get_leaf(self, index.n)
         IN  IF r.err # "none" THEN r ELSE Return(r.self, encode(r.ret))

\* mt.py 139-149
get_count(self) == Return(self, get_leaf_count(self))

\* mt.py 202-205: every key and value of every dict of the list is encoded,
\* each pair becoming a dict of its own
\* (mutant: the list is overwritten, not appended to, so only the last entry stays)
EncodeItemsLastOnly(dicts) ==
    IF dicts = <<>> THEN <<>>
    ELSE LET last == dicts[Len(dicts)]
         IN  [i \in 1..Len(last) |-> <<Item(encode(last[i].key), encode(last[i].val))>>]

RECURSIVE EncodeItems(_)
EncodeItems(dicts) ==
    IF dicts = <<>> THEN <<>>
    ELSE [i \in 1..Len(Head(dicts)) |->
            <<Item(encode(Head(dicts)[i].key), encode(Head(dicts)[i].val))>>]
         \o EncodeItems(Tail(dicts))

\* mt.py 228-231: the same loop, decoding
RECURSIVE DecodeItems(_)
DecodeItems(dicts) ==
    IF dicts = <<>> THEN <<>>
    ELSE [i \in 1..Len(Head(dicts)) |->
            <<Item(decode(Head(dicts)[i].key), decode(Head(dicts)[i].val))>>]
         \o DecodeItems(Tail(dicts))

\* mt.py 175-208: the leaf, then the base class's sibling path, then the root
\* (mutant: the root is fetched, and the tree rebuilt, before the leaf is looked up)
get_proof_of_inclusion_root_first(self, index) ==
    IF ~index.isint THEN Raise(self, "TypeError")
    ELSE LET root == get_merkle_root(self)
             key == get_leaf(root.self, index.n)
             proof == super_get_proof_of_inclusion(root.self, index.n)
             byte_proof == EncodeItems(proof.ret)
         IN  IF root.err # "none" THEN root
             ELSE IF key.err # "none" THEN key
             ELSE IF proof.err # "none" THEN proof
             ELSE Return(root.self,
                         Proof(encode(key.ret), encode(root.ret), byte_proof, "MT POI"))

\* (mutant: the tree is left Unbuilt once the Proof is made)
get_proof_of_inclusion_invalidating(self, index) ==
    IF ~index.isint THEN Raise(self, "TypeError")
    ELSE LET key == get_leaf(self, index.n)
             proof == super_get_proof_of_inclusion(self, index.n)
             byte_proof == EncodeItems(proof.ret)
             root == get_merkle_root(self)
         IN  IF key.err # "none" THEN key
             ELSE IF proof.err # "none" THEN proof
             ELSE IF root.err # "none" THEN root
             ELSE Return(Tree(root.self.leaves, <<>>, FALSE),
                         Proof(encode(key.ret), encode(root.ret), byte_proof, "MT POI"))

get_proof_of_inclusion(self, index) ==
    IF ~index.isint THEN Raise(self, "TypeError")
    ELSE LET key == get_leaf(self, index.n)
             proof == super_get_proof_of_inclusion(self, index.n)
             byte_proof == EncodeItems(proof.ret)
             root == get_merkle_root(self)
         IN  IF key.err # "none" THEN key
             ELSE IF proof.err # "none" THEN proof
             ELSE IF root.err # "none" THEN root
             ELSE Return(root.self,
                         Proof(encode(key.ret), encode(root.ret), byte_proof, "MT POI"))

\* mt.py 210-233
\* (mutant: the root of the tree at hand is used in place of the Proof's root)
verify_with_own_root(self, proof) ==
    IF ~IsProof(proof) THEN Raise(self, "TypeError")
    ELSE LET root == get_merkle_root(self)
         IN  super_verify_proof_of_inclusion(self, DecodeItems(proof.proof),
                decode(proof.target),
                IF root.err = "none" THEN root.ret ELSE decode(proof.trie_root))

\* (mutant: verification refuses to run on an Unbuilt tree)
verify_only_when_ready(self, proof) ==
    IF ~IsProof(proof) THEN Raise(self, "TypeError")
    ELSE IF ~self.is_ready THEN Return(self, FALSE)
    ELSE super_verify_proof_of_inclusion(self, DecodeItems(proof.proof),
                                         decode(proof.target), decode(proof.trie_root))

verify_proof_of_inclusion(self, proof) ==
    IF ~IsProof(proof) THEN Raise(self, "TypeError")
    ELSE super_verify_proof_of_inclusion(self, DecodeItems(proof.proof),
                                         decode(proof.target), decode(proof.trie_root))

\* Python binds the handle as the first positional argument of a method call:
\* a call with nargs arguments on a handle passes 1 + nargs to the function
BoundCall(self, nparams, nargs, body) ==
    IF 1 + nargs # nparams THEN Raise(self, "TypeError") ELSE body

\* mt.py 235-236: def get_proof_of_exclusion(self)
get_proof_of_exclusion(self, nargs) ==
    BoundCall(self, 1, nargs, Raise(self, "NotImplementedError"))

\* mt.py 238-239: def verify_proof_of_exclusion()
verify_proof_of_exclusion(self, nargs) ==
    BoundCall(self, 0, nargs, Raise(self, "NotImplementedError"))

(***************************************************************************)
(* The state machine: one action per public method.                        *)
(***************************************************************************)
Init ==
    /\ secure \in BOOLEAN
    /\ leaves = <<>>
    /\ levels = <<>>
    /\ is_ready = FALSE
    /\ held = None
    /\ op = "init"
    /\ arg = NoArg
    /\ err = "none"
    /\ ret = None

\* the effect of a call on the tree handle and on what the caller sees
Call(name, a, r) ==
    /\ leaves' = r.self.leaves
    /\ levels' = r.self.levels
    /\ is_ready' = r.self.is_ready
    /\ op' = name
    /\ arg' = a
    /\ err' = r.err
    /\ ret' = r.ret
    /\ UNCHANGED secure

\* In Spec the caller drops the Proof it holds when it changes the leaves; in
\* SpecKeep (below) it keeps the Proof through every change of the tree.
Put ==
    /\ Len(leaves) < MaxLeaves
    /\ \E value \in Values :
        Call("put", value, put(Self, value))
    /\ held' = None

RECURSIVE SeqsUpTo(_, _)
SeqsUpTo(S, n) ==
    IF n = 0 THEN {<<>>}
    ELSE LET shorter == SeqsUpTo(S, n - 1)
         IN  shorter \cup {Append(q, x) : q \in shorter, x \in S}

\* lists of accepted and of rejected values
ListInputs ==
    {[islist |-> TRUE, items |-> q] : q \in SeqsUpTo({ValA, ValDict, ValInt}, MaxList)}
        \cup {[islist |-> FALSE, items |-> <<>>]}

PutList ==
    /\ \E values \in ListInputs :
        /\ Len(leaves) + Len(values.items) <= MaxLeaves
        /\ Call("put_list", values, put_list(Self, values))
    /\ held' = None

MakeTree ==
    /\ Call("make_tree", NoArg, make_tree(Self))
    /\ UNCHANGED held

ResetTree ==
    /\ Call("reset_tree", NoArg, reset_tree(Self))
    /\ held' = None

GetMerkleRoot ==
    /\ Call("get_merkle_root", NoArg, get_merkle_root(Self))
    /\ UNCHANGED held

Indices ==
    {[isint |-> TRUE, n |-> i] : i \in 0..MaxLeaves} \cup {[isint |-> FALSE, n |-> 0]}

Get ==
    /\ \E index \in Indices : Call("get", index, get(Self, index))
    /\ UNCHANGED held

GetCount ==
    /\ Call("get_count", NoArg, get_count(Self))
    /\ UNCHANGED held

ConvertValue ==
    /\ \E value \in Values : Call("convert_value", value, convert_value(Self, value))
    /\ UNCHANGED held

\* the caller keeps the Proof it was given
GetProofOfInclusion ==
    \E index \in Indices :
        LET r == get_proof_of_inclusion(Self, index)
        IN  /\ Call("get_proof_of_inclusion", index, r)
            /\ held' = IF r.err = "none" THEN r.ret ELSE held

\* the byte strings a caller may write into a Proof: its own leaf and root, and
\* the digest of an input value
TamperNodes == {held.target.b, held.trie_root.b, hash_function(ValA)}

\* the held Proof with one field replaced by a different value
Tampered ==
    {[what |-> "target", at |-> 0, proof |-> [held EXCEPT !.target = [b |-> n]]] :
        n \in TamperNodes \ {held.target.b}}
    \cup {[what |-> "root", at |-> 0, proof |-> [held EXCEPT !.trie_root = [b |-> n]]] :
        n \in TamperNodes \ {held.trie_root.b}}
    \cup UNION {
        {[what |-> "sibling", at |-> i, proof |-> [held EXCEPT !.proof[i][1].val = [b |-> n]]] :
            n \in TamperNodes \ {held.proof[i][1].val.b}} : i \in 1..Len(held.proof)}
    \cup {[what |-> "side", at |-> i, proof |-> [held EXCEPT !.proof[i][1].key = [b |-> "up"]]] :
            i \in 1..Len(held.proof)}

ProofInputs ==
    IF held = None THEN {[what |-> "notproof", at |-> 0, proof |-> None]}
    ELSE {[what |-> "held", at |-> 0, proof |-> held],
          [what |-> "notproof", at |-> 0, proof |-> None]}
            \cup Tampered

VerifyProofOfInclusion ==
    /\ \E p \in ProofInputs :
        Call("verify_proof_of_inclusion", [what |-> p.what, at |-> p.at],
             verify_proof_of_inclusion(Self, p.proof))
    /\ UNCHANGED held

GetProofOfExclusion ==
    /\ Call("get_proof_of_exclusion", NoArg, get_proof_of_exclusion(Self, 0))
    /\ UNCHANGED held

\* called on a handle, with or without a proof as its argument
VerifyProofOfExclusion ==
    /\ \E nargs \in 0..1 :
        Call("verify_proof_of_exclusion", [nargs |-> nargs],
             verify_proof_of_exclusion(Self, nargs))
    /\ UNCHANGED held

Next ==
    \/ Put
    \/ PutList
    \/ MakeTree
    \/ ResetTree
    \/ GetMerkleRoot
    \/ Get
    \/ GetCount
    \/ ConvertValue
    \/ GetProofOfInclusion
    \/ VerifyProofOfInclusion
    \/ GetProofOfExclusion
    \/ VerifyProofOfExclusion

Spec == Init /\ [][Next]_vars

(***************************************************************************)
(* SpecKeep: the caller keeps a Proof while the tree it came from is       *)
(* changed and reset.                                                      *)
(***************************************************************************)
PutKeep ==
    /\ Len(leaves) < MaxLeaves
    /\ \E value \in {ValA, ValDict} :
        Call("put", value, put(Self, value))
    /\ UNCHANGED held

ResetTreeKeep ==
    /\ Call("reset_tree", NoArg, reset_tree(Self))
    /\ UNCHANGED held

NextKeep ==
    \/ PutKeep
    \/ ResetTreeKeep
    \/ MakeTree
    \/ GetProofOfInclusion
    \/ VerifyProofOfInclusion

SpecKeep == Init /\ [][NextKeep]_vars

(***************************************************************************)
(* Properties                                                              *)
(***************************************************************************)
IntIndex(i) == [isint |-> TRUE, n |-> i]
OutOfRange == {index \in Indices : index.isint /\ index.n >= Len(leaves)}

\* The Proof of leaf i of a tree built over the leaf sequence lv
ProofOver(lv, i) ==
    LET path == Walk(Build(lv), 1, i)
    IN  Proof(encode(to_str(lv[i + 1])), encode(to_str(Root(Build(lv)))),
              [k \in 1..Len(path) |-> <<Item(encode(path[k][1].key), encode(path[k][1].val))>>],
              "MT POI")

\* C1: whenever the tree holds n >= 1 leaves, whatever calls led there, a call of
\* get_proof_of_inclusion(i) with 0 <= i < n returns a Proof, and
\* verify_proof_of_inclusion of that Proof returns true.
C1_InclusionRoundTrip ==
    (op = "get_proof_of_inclusion" /\ arg.isint /\ arg.n < Len(leaves))
        => (err = "none" /\ verify_proof_of_inclusion(Self, ret).ret = TRUE)

\* C2: in every reachable state with at least one leaf, get_merkle_root() returns
\* the root of a fresh build over the current leaves, built before or not.
C2_RootNeverStale ==
    Len(leaves) >= 1 =>
        LET r == get_merkle_root(Self)
        IN  /\ r.err = "none"
            /\ r.ret = to_str(Root(Build(leaves)))
            /\ r.self.leaves = leaves

C2_Witness ==
    /\ op = "get_merkle_root"
    /\ err = "none"
    /\ Len(leaves) = MaxLeaves
    /\ ret = to_str(Root(Build(leaves)))

\* C3: a call of get_proof_of_inclusion(i) with a valid i on an Unbuilt tree
\* rebuilds first: it returns the Proof whose sibling list and root both come
\* from the current leaves, and leaves the tree Built.
C3_ProofRebuildsFirst ==
    [][(op' = "get_proof_of_inclusion" /\ ~is_ready /\ arg'.isint /\ arg'.n < Len(leaves))
        => (err' = "none" /\ is_ready' /\ ret' = ProofOver(leaves, arg'.n))]_vars

\* C4: with zero leaves get_merkle_root() fails with EmptyTree and returns
\* nothing, and every proof request fails.
C4_EmptyTreeRejected ==
    Len(leaves) = 0 =>
        /\ get_merkle_root(Self).err = "EmptyTree"
        /\ get_merkle_root(Self).ret = None
        /\ \A index \in Indices : get_proof_of_inclusion(Self, index).err # "none"

C4_Witness ==
    /\ op = "get_merkle_root"
    /\ err = "EmptyTree"
    /\ ret = None
    /\ Len(leaves) = 0

\* C5: for every index >= the leaf count, get(index) and
\* get_proof_of_inclusion(index) fail with IndexOutOfRange, return nothing and
\* leave the leaves, the levels and the Built/Unbuilt state as they were.
C5_OutOfRangeRejected ==
    \A index \in OutOfRange :
        /\ get(Self, index) = Raise(Self, "IndexOutOfRange")
        /\ get_proof_of_inclusion(Self, index) = Raise(Self, "IndexOutOfRange")

C5_Witness ==
    /\ op = "get_proof_of_inclusion"
    /\ err = "IndexOutOfRange"
    /\ ret = None
    /\ arg.n >= Len(leaves)
    /\ Len(leaves) >= 1
    /\ ~is_ready

\* the pairing rule, level by level: node k of the next level is the digest of
\* node 2k-1 followed by node 2k, or by node 2k-1 again when there is no node 2k
FollowsRule(lvls) ==
    /\ Len(lvls) >= 1
    /\ Len(lvls[Len(lvls)]) = 1
    /\ \A x \in 1..(Len(lvls) - 1) :
        /\ Len(lvls[x]) > 1
        /\ Len(lvls[x + 1]) = (Len(lvls[x]) + 1) \div 2
        /\ \A k \in 1..Len(lvls[x + 1]) :
            lvls[x + 1][k] =
                hash_function(concat(lvls[x][2 * k - 1],
                    IF 2 * k <= Len(lvls[x]) THEN lvls[x][2 * k] ELSE lvls[x][2 * k - 1]))

\* C6: the tree get_merkle_root() answers from has the leaves as level 0 and
\* obeys the pairing rule at every level, an odd last node being hashed with a
\* copy of itself; the root is the one node of the last level.
C6_OddDuplication ==
    Len(leaves) >= 1 =>
        LET r == get_merkle_root(Self)
        IN  /\ r.err = "none"
            /\ r.self.levels[1] = leaves
            /\ FollowsRule(r.self.levels)
            /\ r.ret = to_str(r.self.levels[Len(r.self.levels)][1])

\* leaves [A, B, C]: level 1 is [H(A||B), H(C||C)], the root H(H(A||B) || H(C||C))
C6_Witness ==
    LET A == ValA
        B == ValB
        C == PyStr(<<1, 5>>)
        AB == hash_function(concat(A, B))
        CC == hash_function(concat(C, C))
    IN  /\ op = "get_merkle_root"
        /\ leaves = <<A, B, C>>
        /\ levels = << <<A, B, C>>, <<AB, CC>>, <<hash_function(concat(AB, CC))>> >>
        /\ ret = to_str(hash_function(concat(AB, CC)))

\* C7: a Proof returned by get_proof_of_inclusion in which one sibling digest,
\* the target leaf or the claimed root is replaced by a different value never
\* verifies true.
C7_TamperDetected ==
    held # None =>
        \A p \in Tampered :
            p.what \in {"target", "root", "sibling"}
                => verify_proof_of_inclusion(Self, p.proof).ret # TRUE

C7_Witness ==
    /\ op = "verify_proof_of_inclusion"
    /\ arg.what = "sibling"
    /\ err = "none"
    /\ ret = FALSE
    /\ Len(held.proof) = 2

\* C8: a Proof the caller keeps verifies true in every later state of the tree
\* it came from, and verification gives the same result on any tree handle.
C8_ProofIndependent ==
    held # None =>
        /\ verify_proof_of_inclusion(Self, held) = Return(Self, TRUE)
        /\ verify_proof_of_inclusion(Tree(<<>>, <<>>, FALSE), held).ret = TRUE
        /\ \A p \in Tampered :
            verify_proof_of_inclusion(Self, p.proof).ret
                = verify_proof_of_inclusion(Tree(<<>>, <<>>, FALSE), p.proof).ret

\* verify acted on a kept Proof after the tree was reset and refilled
C8_Witness ==
    /\ op = "verify_proof_of_inclusion"
    /\ arg.what = "held"
    /\ ret = TRUE
    /\ Len(held.proof) = 2
    /\ leaves = <<PyStr(<<1, 5>>)>>
    /\ held.target # encode(to_str(leaves[1]))

\* C9: get_proof_of_exclusion and verify_proof_of_exclusion, called on a tree
\* handle, fail with NotImplementedError and no other error, return nothing and
\* change no state.
C9_ExclusionNotImplemented ==
    [][op' \in {"get_proof_of_exclusion", "verify_proof_of_exclusion"}
        => (err' = "NotImplementedError" /\ ret' = None
            /\ UNCHANGED <<leaves, levels, is_ready>>)]_vars

\* the types put documents: bytes, str, or a dict whose keys are bytes or str and
\* whose values are bytes, str or such a dict
RECURSIVE Accepted(_)
Accepted(value) ==
    \/ value.kind \in {"bytes", "str"}
    \/ /\ value.kind = "dict"
       /\ \A i \in 1..Len(value.items) :
            /\ value.items[i].key.kind \in {"bytes", "str"}
            /\ Accepted(value.items[i].val)

\* C10: put(value) with a value of a type put does not accept fails with
\* TypeError (TypeMismatch) and stores nothing: the leaves, the levels and the
\* Built/Unbuilt state stay as they were.
C10_PutValidatesType ==
    [][(op' = "put" /\ ~Accepted(arg'))
        => (err' \in {"TypeError", "TypeMismatch"}
            /\ UNCHANGED <<leaves, levels, is_ready>>)]_vars

\* the bytes for which the byte form of a leaf stored raw stands
BytesValue(x) ==
    IF "b" \in DOMAIN x /\ "kind" \in DOMAIN x.b THEN PyBytes(x.b.s) ELSE x

\* C11: after put(v) has stored v at index i, get(i) equals convert_value(v):
\* the digest of v when secure, v itself when not.
C11_GetIsConvertValue ==
    (op = "put" /\ err = "none") =>
        LET c == convert_value(Self, arg)
        IN  /\ c.err = "none"
            /\ BytesValue(get(Self, IntIndex(Len(leaves) - 1)).ret) = BytesValue(c.ret)

\* C12: the leaf store is append-only with stable indices: a successful put
\* stores its leaf at index = the count before and raises the count by exactly 1,
\* and no call but reset_tree changes get(i) for an index i below the count.
C12_AppendOnlyStableIndices ==
    [][/\ (op' = "put" /\ err' = "none") =>
            /\ get_count(Self').ret = get_count(Self).ret + 1
            /\ get(Self', IntIndex(Len(leaves))).err = "none"
            /\ get(Self, IntIndex(Len(leaves))).err = "IndexOutOfRange"
       /\ op' # "reset_tree" =>
            /\ get_count(Self').ret >= get_count(Self).ret
            /\ \A i \in 0..(Len(leaves) - 1) :
                    get(Self', IntIndex(i)).ret = get(Self, IntIndex(i)).ret]_vars

C12_Witness ==
    /\ op = "put"
    /\ err = "none"
    /\ Len(leaves) = MaxLeaves
    /\ leaves[1] # leaves[MaxLeaves]
    /\ get(Self, IntIndex(0)).ret = encode(to_str(leaves[1]))

ReadOnlyCalls ==
    {"get", "get_count", "convert_value", "get_proof_of_inclusion",
     "verify_proof_of_inclusion"}

\* C13: every successful put, put_list or reset_tree leaves the tree Unbuilt,
\* every make_tree or get_merkle_root that returns leaves it Built, and get,
\* get_count, convert_value, get_proof_of_inclusion and
\* verify_proof_of_inclusion never move a Built tree to Unbuilt.
C13_BuiltUnbuilt ==
    [][/\ (op' \in {"put", "put_list", "reset_tree"} /\ err' = "none") => ~is_ready'
       /\ (op' \in {"make_tree", "get_merkle_root"} /\ err' = "none") => is_ready'
       /\ (op' \in ReadOnlyCalls /\ is_ready) => is_ready']_vars

\* C13, amended: as above, but a put_list leaves the tree Unbuilt only when its
\* list holds at least one value; put_list([]) stores nothing and a Built tree
\* stays Built.
C13_BuiltUnbuiltNonEmptyList ==
    [][/\ (op' \in {"put", "reset_tree"} /\ err' = "none") => ~is_ready'
       /\ (op' = "put_list" /\ err' = "none") =>
            IF arg'.items # <<>> THEN ~is_ready' ELSE is_ready' = is_ready
       /\ (op' \in {"make_tree", "get_merkle_root"} /\ err' = "none") => is_ready'
       /\ (op' \in ReadOnlyCalls /\ is_ready) => is_ready']_vars

C13_Witness ==
    /\ op = "put_list"
    /\ err = "none"
    /\ arg.items = <<>>
    /\ is_ready
    /\ Len(leaves) = MaxLeaves

\* C14: get_proof_of_inclusion(i) with a valid index on a Built tree returns a
\* Proof and leaves the leaves, every level and the Built state as they were;
\* get_merkle_root() returns the same value before and after.
C14_ProofGenerationReadOnly ==
    is_ready =>
        \A i \in 0..(Len(leaves) - 1) :
            LET p == get_proof_of_inclusion(Self, IntIndex(i))
            IN  /\ p.err = "none"
                /\ p.self = Self
                /\ get_merkle_root(Self).err = "none"
                /\ get_merkle_root(p.self).ret = get_merkle_root(Self).ret
                /\ get_merkle_root(p.self).self = Self

C14_Witness ==
    /\ op = "get_proof_of_inclusion"
    /\ err = "none"
    /\ arg.n = MaxLeaves - 1
    /\ is_ready
    /\ levels = Build(leaves)
    /\ ret.trie_root = encode(get_merkle_root(Self).ret)

CeilLog2(n) == CHOOSE k \in 0..n : 2 ^ k >= n /\ (k = 0 \/ 2 ^ (k - 1) < n)

\* C16: in every Built state with n > 0 leaves, level 0 is the leaf sequence,
\* each next level has ceil(previous length / 2) nodes, the last level has
\* exactly one node, there are ceil(log2(n)) + 1 levels, and an inclusion proof
\* has exactly (number of levels - 1) sibling entries.
C16_LevelShape ==
    (is_ready /\ Len(leaves) > 0) =>
        /\ levels[1] = leaves
        /\ \A x \in 1..(Len(levels) - 1) :
                Len(levels[x + 1]) = (Len(levels[x]) + 1) \div 2
        /\ Len(levels[Len(levels)]) = 1
        /\ Len(levels) = CeilLog2(Len(leaves)) + 1
        /\ \A i \in 0..(Len(leaves) - 1) :
                LET p == get_proof_of_inclusion(Self, IntIndex(i))
                IN  p.err = "none" /\ Len(p.ret.proof) = Len(levels) - 1

C16_Witness ==
    /\ op = "get_proof_of_inclusion"
    /\ err = "none"
    /\ is_ready
    /\ Len(leaves) = 3
    /\ Len(levels) = 3
    /\ Len(levels[2]) = 2
    /\ Len(ret.proof) = 2

\* the leaves a put can store under the current configuration
LeafPool ==
    {IF secure THEN hash_function(v) ELSE v : v \in {ValA, ValB, PyStr(<<1, 5>>)}}

\* the other leaf sequences of the length of lv
OtherLeaves(lv) == {other \in [1..Len(lv) -> LeafPool] : other # lv}

\* C17: the root commits to leaf content and order: a tree over any other leaf
\* sequence of the same length (a leaf changed, or two distinct leaves swapped)
\* has a different root.
C17_RootCommitsToLeaves ==
    Len(leaves) >= 1 =>
        \A other \in OtherLeaves(leaves) :
            LET a == get_merkle_root(Self)
                b == get_merkle_root(Tree(other, <<>>, FALSE))
            IN  a.err = "none" /\ b.err = "none" /\ a.ret # b.ret

C17_Witness ==
    /\ op = "get_merkle_root"
    /\ err = "none"
    /\ leaves = <<ValA, ValB, ValA>>
    /\ <<ValB, ValA, ValA>> \in OtherLeaves(leaves)
    /\ <<ValA, ValB, ValB>> \in OtherLeaves(leaves)
    /\ ret # get_merkle_root(Tree(<<ValB, ValA, ValA>>, <<>>, FALSE)).ret
    /\ ret # get_merkle_root(Tree(<<ValA, ValB, ValB>>, <<>>, FALSE)).ret

\* C18: make_tree is idempotent and leaves the leaves alone: a second make_tree
\* with no put or reset in between gives the levels and root of the first, and
\* no make_tree changes the leaf sequence or the leaf count.
C18_BuildIdempotent ==
    LET once == make_tree(Self)
        twice == make_tree(once.self)
    IN  /\ once.self.leaves = leaves
        /\ twice.self.leaves = leaves
        /\ get_count(twice.self).ret = get_count(Self).ret
        /\ is_ready => once = Return(Self, None)
        /\ Len(leaves) >= 1 =>
                /\ once.err = "none"
                /\ twice = once
                /\ get_merkle_root(twice.self).ret = get_merkle_root(once.self).ret

C18_Witness ==
    /\ op = "make_tree"
    /\ err = "none"
    /\ is_ready
    /\ Len(leaves) = MaxLeaves
    /\ Len(levels) = 3
    /\ make_tree(Self).self.levels = levels

\* the tree as __init__ leaves it
FreshTree == Tree(<<>>, <<>>, FALSE)

\* C19: right after reset_tree the leaf count is 0 and the tree is Unbuilt with
\* no levels and no root, and any puts made after it give the leaves, root and
\* proofs that the same puts give on a freshly constructed tree.
C19_ResetRestoresInit ==
    LET r == reset_tree(Self)
    IN  /\ r.err = "none"
        /\ get_count(r.self).ret = 0
        /\ ~r.self.is_ready
        /\ r.self.levels = <<>>
        /\ get_merkle_root(r.self).err = "EmptyTree"
        /\ \A vs \in SeqsUpTo({ValA, ValB, ValDict}, MaxList) :
                LET a == put_each(r.self, vs)
                    b == put_each(FreshTree, vs)
                IN  /\ a.self.leaves = b.self.leaves
                    /\ get_merkle_root(a.self) = get_merkle_root(b.self)
                    /\ \A i \in 0..(Len(vs) - 1) :
                            get_proof_of_inclusion(make_tree(a.self).self, IntIndex(i)).ret
                                = get_proof_of_inclusion(make_tree(b.self).self, IntIndex(i)).ret

C19_Witness ==
    /\ op = "reset_tree"
    /\ err = "none"
    /\ Self = FreshTree
    /\ get_count(Self).ret = 0
    /\ get_merkle_root(put(Self, ValA).self).ret = to_str(IF secure THEN hash_function(ValA) ELSE ValA)

====
